---------------------------- MODULE Spec2Model ----------------------------
(***************************************************************************)
(* Draw-command batching of nannou's bevy renderer.                        *)
(*                                                                         *)
(*   bevy_nannou_render/src/lib.rs   prepare_view_mesh, push_draw_cmd      *)
(*   bevy_nannou_draw/src/render.rs  update_draw_mesh                      *)
(*                                                                         *)
(* Lengths of points are kept in half points (a point is two units), so    *)
(* that Rect::from_w_h, which centres a rectangle on the origin, stays in  *)
(* the integers for odd window sizes.                                      *)
(***************************************************************************)
EXTENDS Integers, Sequences, FiniteSets, TLC

\* Most commands recorded into the draw command logs before a batching pass.
MaxCmds == 3

\* Option<T>: None is the empty sequence, Some(x) the one-element sequence.
None == <<>>
Some(x) == <<x>>

Last(s) == s[Len(s)]

RECURSIVE SeqSum(_)
SeqSum(s) == IF s = <<>> THEN 0 ELSE s[1] + SeqSum(Tail(s))

(***************************************************************************)
(* Inputs: windows, contexts and primitives.                               *)
(***************************************************************************)

\* The extracted window a view renders to (physical size in pixels).
Window == [physical_width |-> 4, physical_height |-> 2]

\* How a view's camera target resolves at lib.rs:161-172.
TargetKinds == {"window", "window_missing", "not_window"}

\* nannou_core::geom::Rect, in half points: x and y are <<start, end>>.
Rect(x1, x2, y1, y2) == [x |-> <<x1, x2>>, y |-> <<y1, y2>>]

\* geom::Rect::from_w_h(w, h), w and h given in points.
from_w_h(w, h) == Rect(-w, w, -h, h)

\* draw::Scissor
ScissorFull == [kind |-> "Full"]
ScissorRect(r) == [kind |-> "Rect", rect |-> r]
ScissorNoOverlap == [kind |-> "NoOverlap"]

\* A scissor rectangle covering the right half of the window.
RightHalf == Rect(0, Window.physical_width, -Window.physical_height, Window.physical_height)

\* A scissor rectangle equal to the window's full rectangle.
WholeWindow == Rect(-Window.physical_width, Window.physical_width,
                    -Window.physical_height, Window.physical_height)

Scissors == {ScissorFull, ScissorRect(RightHalf), ScissorRect(WholeWindow), ScissorNoOverlap}
Transforms == {"identity", "scaled"}
Blends == {"BLEND_NORMAL", "BLEND_ADD"}
Topologies == {"TriangleList", "LineList"}

\* draw::Context::default()
DefaultContext ==
    [transform |-> "identity", scissor |-> ScissorFull,
     blend |-> "BLEND_NORMAL", topology |-> "TriangleList"]

AllContexts ==
    [transform : Transforms, scissor : Scissors, blend : Blends, topology : Topologies]

Differing(c, d) ==
    {f \in {"transform", "scissor", "blend", "topology"} : c[f] # d[f]}

\* The contexts recorded: the default, those one setter call away from it, and
\* the one that differs from it in every field.
Contexts ==
    {c \in AllContexts :
        /\ Cardinality(Differing(c, DefaultContext)) \in {0, 1, 4}
        /\ (c.scissor \in {ScissorNoOverlap, ScissorRect(WholeWindow)}
               => Differing(c, DefaultContext) = {"scissor"})}

\* What render_primitive appends for a primitive and the vertex mode it returns.
VertCounts == {0, 1}
IndexCounts == {0, 1}
VertexModes == {"Color", "Text"}

\* draw::DrawCommand
ContextCmd(c) == [type |-> "Context", ctxt |-> c]
PrimitiveCmd(nv, ni, m) == [type |-> "Primitive", nv |-> nv, ni |-> ni, mode |-> m]

DrawCommands ==
    {ContextCmd(c) : c \in Contexts}
        \cup {PrimitiveCmd(nv, ni, m) : nv \in VertCounts, ni \in IndexCounts, m \in VertexModes}

(***************************************************************************)
(* RenderCommand                                                           *)
(***************************************************************************)
SetPipeline(id) == [type |-> "SetPipeline", id |-> id]
SetBindGroup(h) == [type |-> "SetBindGroup", handle |-> h]
SetScissor(s) == [type |-> "SetScissor", scissor |-> s]
DrawIndexed(sv, from, to) ==
    [type |-> "DrawIndexed", start_vertex |-> sv, start |-> from, end |-> to]

default_texture_handle == "default_texture"

Max(a, b) == IF a >= b THEN a ELSE b
Min(a, b) == IF a <= b THEN a ELSE b

\* Range<u32>::len(): zero when the range is empty or inverted.
RangeLen(from, to) == IF to > from THEN to - from ELSE 0


(***************************************************************************)
(* Scissor rectangle of a context scissor (lib.rs:176-187, 304-319).        *)
(***************************************************************************)

\* geom::Range::absolute
RangeAbsolute(r) == IF r[1] <= r[2] THEN r ELSE <<r[2], r[1]>>

\* geom::Range::overlap: Some(range) when the two ranges meet, None otherwise.
RangeOverlap(a, b) ==
    LET s == RangeAbsolute(a)
        o == RangeAbsolute(b)
        start == Max(s[1], o[1])
        end == Min(s[2], o[2])
    IN  IF end - start >= 0 THEN Some(<<start, end>>) ELSE None

\* geom::Rect::overlap
RectOverlap(a, b) ==
    LET x == RangeOverlap(a.x, b.x)
        y == RangeOverlap(a.y, b.y)
    IN  IF x # None /\ y # None THEN Some([x |-> x[1], y |-> y[1]]) ELSE None

\* let pt_to_px = |s: f32| (s * scale_factor).round() as u32, s in half points.
pt_to_px(s) == IF s <= 0 THEN 0 ELSE (s + 1) \div 2

\* full_rect of a window, lib.rs:181.
full_rect(window) == from_w_h(window.physical_width, window.physical_height)

\* window_to_scissor, lib.rs:183-187: map_range onto 0..w_px and 0..h_px.
window_to_scissor(window, v) ==
    <<Max(0, (v[1] + window.physical_width) \div 2),
      Max(0, (v[2] + window.physical_height) \div 2)>>

\* A derivation that pushes the recorded rectangle without clipping it.
DeriveScissorUnclipped(window, scissor) ==
    LET rect ==
            CASE scissor.kind = "Full" -> full_rect(window)
              [] scissor.kind = "Rect" -> scissor.rect
              [] OTHER -> from_w_h(0, 0)
        bottom_left == <<RangeAbsolute(rect.x)[1], RangeAbsolute(rect.y)[1]>>
        lb == window_to_scissor(window, bottom_left)
    IN  [left |-> lb[1], bottom |-> lb[2],
         width |-> pt_to_px(rect.x[2] - rect.x[1]),
         height |-> pt_to_px(rect.y[2] - rect.y[1])]

\* The Scissor pushed for the tracker's scissor, lib.rs:304-319.
DeriveScissor(window, scissor) ==
    LET rect ==
            CASE scissor.kind = "Full" -> full_rect(window)
              [] scissor.kind = "Rect" ->
                    LET o == RectOverlap(full_rect(window), scissor.rect)
                    IN  IF o # None THEN o[1] ELSE from_w_h(0, 0)
              [] OTHER -> from_w_h(0, 0)
        bottom_left == <<RangeAbsolute(rect.x)[1], RangeAbsolute(rect.y)[1]>>
        lb == window_to_scissor(window, bottom_left)
    IN  [left |-> lb[1], bottom |-> lb[2],
         width |-> pt_to_px(rect.x[2] - rect.x[1]),
         height |-> pt_to_px(rect.y[2] - rect.y[1])]

(***************************************************************************)
(* Helpers of the batching loop.                                           *)
(***************************************************************************)

\* NannouPipelineKey built at lib.rs:246-259; the formats and the sample
\* count are the same for every primitive of a view.
NannouPipelineKey(ctxt) ==
    [output_color_format |-> "bevy_default", sample_count |-> "msaa",
     depth_format |-> "depth", topology |-> ctxt.topology, blend_state |-> ctxt.blend]

\* Position of key in the cache of specialised pipelines, 0 when absent.
CachedId(cache, key) ==
    IF \E i \in 1..Len(cache) : cache[i] = key
    THEN CHOOSE i \in 1..Len(cache) : cache[i] = key
    ELSE 0

\* pipelines.specialize(..), lib.rs:261-262: equal keys give the same id, a new
\* key gets a fresh id.
Specialize(cache, key) ==
    IF CachedId(cache, key) # 0
    THEN [id |-> CachedId(cache, key), cache |-> cache]
    ELSE [id |-> Len(cache) + 1, cache |-> Append(cache, key)]

\* A push_draw_cmd that forgets to advance the cursor.
PushDrawCmdNoAdvance(curr_start, end_index, cmds) ==
    IF RangeLen(curr_start, end_index) # 0
    THEN [curr_start_index |-> curr_start,
          render_commands |-> Append(cmds, DrawIndexed(0, curr_start, end_index))]
    ELSE [curr_start_index |-> curr_start, render_commands |-> cmds]

\* A push_draw_cmd that puts the draw command in front of the list.
PushDrawCmdFront(curr_start, end_index, cmds) ==
    IF RangeLen(curr_start, end_index) # 0
    THEN [curr_start_index |-> end_index,
          render_commands |-> <<DrawIndexed(0, curr_start, end_index)>> \o cmds]
    ELSE [curr_start_index |-> curr_start, render_commands |-> cmds]

\* A push_draw_cmd without the test for an empty range.
PushDrawCmdAlways(curr_start, end_index, cmds) ==
    [curr_start_index |-> end_index,
     render_commands |-> Append(cmds, DrawIndexed(0, curr_start, end_index))]

\* push_draw_cmd, lib.rs:141-159.
push_draw_cmd(curr_start, end_index, cmds) ==
    IF RangeLen(curr_start, end_index) # 0
    THEN [curr_start_index |-> end_index,
          render_commands |-> Append(cmds, DrawIndexed(0, curr_start, end_index))]
    ELSE [curr_start_index |-> curr_start, render_commands |-> cmds]

\* A tracker that keeps the old transform when a Context command arrives.
ReplaceContextMerge(curr, ctxt) == [ctxt EXCEPT !.transform = curr.transform]

\* DrawCommand::Context(ctxt) => curr_ctxt = ctxt, lib.rs:210.
ReplaceContext(curr, ctxt) == ctxt

\* A scissor comparison that only notices the first scissor.
ScissorChangedFirstOnly(new_scissor, curr) == curr = None

\* let scissor_changed = Some(new_scissor) != curr_scissor, lib.rs:269.
ScissorChanged(new_scissor, curr) == Some(new_scissor) # curr

\* A pipeline comparison that sees a change at every primitive.
PipelineChangedAlways(new_id, curr) == TRUE

\* let pipeline_changed = Some(new_pipeline_id) != curr_pipeline_id, lib.rs:267.
PipelineChanged(new_id, curr) == Some(new_id) # curr

\* A flush that is only made for a pipeline change.
FlushNeededPipelineOnly(scissor_changed, pipeline_changed) == pipeline_changed

\* if scissor_changed || pipeline_changed, lib.rs:274.
FlushNeeded(scissor_changed, pipeline_changed) == scissor_changed \/ pipeline_changed

\* A scissor tracker that never remembers the scissor it pushed.
NextScissorForgets(scissor_changed, new_scissor, curr) == curr

\* curr_scissor = Some(new_scissor) when the scissor changed, lib.rs:302-303.
NextScissor(scissor_changed, new_scissor, curr) ==
    IF scissor_changed THEN Some(new_scissor) ELSE curr

\* State commands in the order pipeline, scissor, bind group.
StateCommandsBindLast(pipeline_changed, scissor_changed, id, scissor) ==
    (IF pipeline_changed THEN <<SetPipeline(id)>> ELSE <<>>)
        \o (IF scissor_changed THEN <<SetScissor(scissor)>> ELSE <<>>)
        \o <<SetBindGroup(default_texture_handle)>>

\* The state commands pushed for one primitive, lib.rs:282-322.
StateCommands(pipeline_changed, scissor_changed, id, scissor) ==
    (IF pipeline_changed THEN <<SetPipeline(id)>> ELSE <<>>)
        \o <<SetBindGroup(default_texture_handle)>>
        \o (IF scissor_changed THEN <<SetScissor(scissor)>> ELSE <<>>)

\* n entries of value x.
Repeat(n, x) == [i \in 1..n |-> x]

\* Draw::drain_commands: the whole log, in order, leaving the log empty.
drain_commands(l) == [cmds |-> l, rest |-> <<>>]


(***************************************************************************)
(* State of prepare_view_mesh (lib.rs:115-345).                            *)
(***************************************************************************)
VARIABLES
    log,                \* view -> the draw command log of the view's Draw
    pc,                 \* "record", "views", "loop", "done" or "panicked"
    todo,               \* views the query has still to yield, lib.rs:133
    cur,                \* the view taken last from the query, 0 before the first
    draw_cmds,          \* lib.rs:202
    pos,                \* position in draw_cmds of the command replayed next
    curr_ctxt,          \* lib.rs:194
    curr_start_index,   \* lib.rs:195
    curr_pipeline_id,   \* lib.rs:197
    curr_scissor,       \* lib.rs:198
    render_commands,    \* lib.rs:134
    mesh_points,        \* mesh.points(): for each vertex the command that appended it
    mesh_indices,       \* mesh.indices(): for each index the command that appended it
    vertex_mode_buffer, \* pipeline.vertex_mode_buffer
    pipelines,          \* keys of the specialised pipelines, in order of their ids
    out,                \* view -> Some of the (mesh, render_commands) inserted, lib.rs:343
    replayed            \* the primitives of the current view that appended indices

\* The state of prepare_view_mesh.
varsB ==
    <<log, pc, todo, cur, draw_cmds, pos, curr_ctxt, curr_start_index,
      curr_pipeline_id, curr_scissor, render_commands, mesh_points, mesh_indices,
      vertex_mode_buffer, pipelines, out, replayed>>

(***************************************************************************)
(* State of update_draw_mesh (render.rs:166-183) and of the code that      *)
(* records into the Draws while it runs.                                   *)
(***************************************************************************)
VARIABLES
    draw_commands,  \* Draw -> state.draw_commands, a list of Option<command>
    state_lock,     \* Draw -> the holders of the write lock of draw.state
    upc,            \* "idle", "iter", "locked", "read", "exec" or "done"
    uq,             \* Draws the query has still to yield, render.rs:170
    tmp,            \* the list std::mem::take has read and not yet replaced
    taken,          \* the collected Vec of drained lists, render.rs:170-174
    ti,             \* render.rs:176: position in taken
    tj,             \* render.rs:177: position in taken[ti]
    world,          \* the commands that have run on the World, in order
    ran_from,       \* Len(world) when the running update_draw_mesh started
    prod,           \* the recording thread: <<>> or <<d>> while it holds d's lock
    pushes,         \* number of entries ever pushed into the logs
    recorded        \* every command recorded into a Draw, in recording order

varsU ==
    <<draw_commands, state_lock, upc, uq, tmp, taken, ti, tj, world, ran_from,
      prod, pushes, recorded>>

(***************************************************************************)
(* The glyph cache (GlyphCache, created at lib.rs:53 and handed to every    *)
(* render at lib.rs:228). Its contract is get_or_insert(glyph_key,          *)
(* rasterize_fn) -> AtlasRect with least-recently-used eviction and a dirty *)
(* flag cleared by an upload acknowledgment. The atlas is a strip of        *)
(* AtlasWidth cells; a glyph of width w takes w adjacent cells.             *)
(***************************************************************************)
AtlasWidth == 3
MaxGlyphOps == 5

GlyphKeys == {"a", "b", "c", "w"}

\* The width of the bitmap rasterize_fn gives for a key; "w" fits no atlas.
GlyphWidth(key) ==
    CASE key = "a" -> 1
      [] key = "w" -> AtlasWidth + 1
      [] OTHER -> 2

AtlasRect(x, w) == [x |-> x, w |-> w]

Cells(rect) == rect.x..(rect.x + rect.w - 1)

\* The cells held by the entries; entries is the sequence of
\* {glyph_key, atlas_rect} in order of last use, least recent first.
Occupied(entries) == UNION {Cells(entries[i].rect) : i \in 1..Len(entries)}

\* Packing into free atlas space: the lowest position where w free cells are adjacent.
Pack(entries, w) ==
    LET fits == {x \in 1..(AtlasWidth - w + 1) : Cells(AtlasRect(x, w)) \cap Occupied(entries) = {}}
    IN  IF fits = {} THEN None
        ELSE Some(AtlasRect(CHOOSE x \in fits : \A y \in fits : x <= y, w))

\* A lookup that never finds the key.
LookupMiss(entries, key) == 0

\* The position of the key's entry, 0 when the key is absent.
Lookup(entries, key) ==
    LET at == {i \in 1..Len(entries) : entries[i].key = key}
    IN  IF at = {} THEN 0 ELSE CHOOSE i \in at : TRUE

RemoveAt(entries, i) == SubSeq(entries, 1, i - 1) \o SubSeq(entries, i + 1, Len(entries))

\* "marks it most-recently-used".
MarkUsed(entries, i) == Append(RemoveAt(entries, i), entries[i])

\* An eviction that takes the most recently used entry.
VictimNewest(entries) == Len(entries)

\* The entry to evict: the least recently used one.
Victim(entries) == 1

\* "evicts the least-recently-used entries until space is found or the atlas
\* is proven too small for the glyph".
RECURSIVE EvictUntilFits(_, _, _)
EvictUntilFits(entries, w, evicted) ==
    IF Pack(entries, w) # None \/ entries = <<>>
    THEN [entries |-> entries, evicted |-> evicted, rect |-> Pack(entries, w)]
    ELSE EvictUntilFits(RemoveAt(entries, Victim(entries)), w,
                        Append(evicted, entries[Victim(entries)].key))

\* get_or_insert(glyph_key, rasterize_fn): a hit returns the cached rectangle;
\* a miss rasterizes, packs (evicting as needed) and inserts, or fails with
\* CacheCapacityExceeded (rect = None).
get_or_insert(entries, key) ==
    LET i == Lookup(entries, key)
        placed == EvictUntilFits(entries, GlyphWidth(key), <<>>)
    IN  IF i # 0
        THEN [entries |-> MarkUsed(entries, i), rect |-> Some(entries[i].rect),
              rasterized |-> FALSE, evicted |-> <<>>]
        ELSE [entries |->
                  IF placed.rect = None THEN placed.entries
                  ELSE Append(placed.entries, [key |-> key, rect |-> placed.rect[1]]),
              rect |-> placed.rect, rasterized |-> TRUE, evicted |-> placed.evicted]

\* A dirty flag that only the last request decides.
DirtyAfterLastOnly(dirty, placed) == placed

\* The dirty flag after a request: set when a glyph was written into the atlas.
DirtyAfter(dirty, placed) == dirty \/ placed

VARIABLES
    gc_entries,     \* the cache entries, least recently used first
    gc_dirty,       \* the dirty flag
    gc_hist,        \* the calls made on the cache so far, with their results
    gc_last_use     \* for each key, the position in gc_hist of its last insert or hit

varsG == <<gc_entries, gc_dirty, gc_hist, gc_last_use>>

(***************************************************************************)
(* The scissor derivation of lib.rs:304-319 on its own: a recorded scissor *)
(* and the Scissor pushed for it.                                          *)
(***************************************************************************)
\* Rectangle coordinates in half points: inside, on the edge of and outside
\* the window, in either order.
Coords == {-6, -4, -2, 0, 1, 2, 4, 6}

ScissorInputs ==
    {ScissorFull, ScissorNoOverlap}
        \cup {ScissorRect(Rect(x1, x2, y1, y2)) : x1 \in Coords, x2 \in Coords,
                                                  y1 \in Coords, y2 \in Coords}

VARIABLES
    sc_in,      \* the scissor of the tracker, None before the first Context
    sc_out      \* the Scissor pushed for it, None before it is pushed

varsS == <<sc_in, sc_out>>

vars == <<varsB, varsU, varsG, varsS>>

\* The locals of the loop body that one view's batching uses.
locals ==
    <<draw_cmds, pos, curr_ctxt, curr_start_index, curr_pipeline_id, curr_scissor,
      render_commands, mesh_points, mesh_indices, replayed>>

\* The views of the query.
Views == {1}

\* The entities with a Draw component that update_draw_mesh queries.
DrawEntities == {1, 2}

RECURSIVE SetToSeq(_)
SetToSeq(S) ==
    IF S = {} THEN <<>>
    ELSE LET x == CHOOSE y \in S : \A z \in S : y <= z
         IN  <<x>> \o SetToSeq(S \ {x})

Recorded == SeqSum([i \in 1..Len(SetToSeq(DOMAIN log)) |-> Len(log[SetToSeq(DOMAIN log)[i]])])

\* The state after construction, with one Draw log per view of V.
InitOver(V) ==
    /\ log = [v \in V |-> <<>>]
    /\ pc = "record"
    /\ todo = <<>>
    /\ cur = 0
    /\ draw_cmds = <<>>
    /\ pos = 1
    /\ curr_ctxt = DefaultContext
    /\ curr_start_index = 0
    /\ curr_pipeline_id = None
    /\ curr_scissor = None
    /\ render_commands = <<>>
    /\ mesh_points = <<>>
    /\ mesh_indices = <<>>
    /\ vertex_mode_buffer = <<>>
    /\ pipelines = <<>>
    /\ out = [v \in V |-> None]
    /\ replayed = <<>>
    /\ draw_commands = [d \in DrawEntities |-> <<>>]
    /\ state_lock = [d \in DrawEntities |-> {}]
    /\ upc = "idle"
    /\ uq = <<>>
    /\ tmp = <<>>
    /\ taken = <<>>
    /\ ti = 1
    /\ tj = 1
    /\ world = <<>>
    /\ ran_from = 0
    /\ prod = <<>>
    /\ pushes = 0
    /\ recorded = <<>>
    /\ gc_entries = <<>>
    /\ gc_dirty = FALSE
    /\ gc_hist = <<>>
    /\ gc_last_use = [k \in GlyphKeys |-> 0]
    /\ sc_in = None
    /\ sc_out = None

Init == InitOver(Views)

\* User code records a command into the log of a view's Draw.
Record(v, cmd) ==
    /\ UNCHANGED <<varsU, varsG, varsS>>
    /\ pc = "record"
    /\ Recorded < MaxCmds
    /\ log' = [log EXCEPT ![v] = Append(@, cmd)]
    /\ UNCHANGED <<pc, todo, cur, locals, vertex_mode_buffer, pipelines, out>>

\* The Render schedule runs prepare_view_mesh: the query starts to iterate.
StartPass ==
    /\ UNCHANGED <<varsU, varsG, varsS>>
    /\ pc = "record"
    /\ pc' = "views"
    /\ todo' = SetToSeq(DOMAIN log)
    /\ UNCHANGED <<log, cur, locals, vertex_mode_buffer, pipelines, out>>

\* lib.rs:133-135 and 161-172 for a view that does not resolve to a window.
SkipView(target) ==
    /\ UNCHANGED <<varsU, varsG, varsS>>
    /\ pc = "views"
    /\ todo # <<>>
    /\ target # "window"
    /\ cur' = Head(todo)
    /\ todo' = Tail(todo)
    /\ render_commands' = <<>>
    /\ mesh_points' = <<>>
    /\ mesh_indices' = <<>>
    /\ replayed' = <<>>
    /\ UNCHANGED <<log, pc, draw_cmds, pos, curr_ctxt, curr_start_index,
                   curr_pipeline_id, curr_scissor, vertex_mode_buffer, pipelines, out>>

\* lib.rs:133-135, 161-172 and 193-207 for a view that renders to a window.
BeginView(target) ==
    /\ UNCHANGED <<varsU, varsG, varsS>>
    /\ pc = "views"
    /\ todo # <<>>
    /\ target = "window"
    /\ cur' = Head(todo)
    /\ render_commands' = <<>>
    /\ mesh_points' = <<>>
    /\ mesh_indices' = <<>>
    /\ replayed' = <<>>
    /\ curr_ctxt' = DefaultContext
    /\ curr_start_index' = 0
    /\ curr_pipeline_id' = None
    /\ curr_scissor' = None
    /\ draw_cmds' = drain_commands(log[Head(todo)]).cmds
    /\ log' = [log EXCEPT ![Head(todo)] = drain_commands(log[Head(todo)]).rest]
    /\ pos' = 1
    /\ pc' = "loop"
    /\ UNCHANGED <<todo, vertex_mode_buffer, pipelines, out>>

\* A Context command that pushes its scissor as soon as it is replayed.
ReplayContextEmits ==
    /\ UNCHANGED <<varsU, varsG, varsS>>
    /\ pc = "loop"
    /\ pos <= Len(draw_cmds)
    /\ draw_cmds[pos].type = "Context"
    /\ curr_ctxt' = ReplaceContext(curr_ctxt, draw_cmds[pos].ctxt)
    /\ render_commands' =
           Append(render_commands, SetScissor(DeriveScissor(Window, draw_cmds[pos].ctxt.scissor)))
    /\ pos' = pos + 1
    /\ UNCHANGED <<log, pc, todo, cur, draw_cmds, curr_start_index, curr_pipeline_id,
                   curr_scissor, mesh_points, mesh_indices,
                   vertex_mode_buffer, pipelines, out, replayed>>

\* DrawCommand::Context, lib.rs:210.
ReplayContext ==
    /\ UNCHANGED <<varsU, varsG, varsS>>
    /\ pc = "loop"
    /\ pos <= Len(draw_cmds)
    /\ draw_cmds[pos].type = "Context"
    /\ curr_ctxt' = ReplaceContext(curr_ctxt, draw_cmds[pos].ctxt)
    /\ pos' = pos + 1
    /\ UNCHANGED <<log, pc, todo, cur, draw_cmds, curr_start_index, curr_pipeline_id,
                   curr_scissor, render_commands, mesh_points, mesh_indices,
                   vertex_mode_buffer, pipelines, out, replayed>>

\* A skip that falls through to the bind group push of lib.rs:297-299.
ReplayDegenerateFallsThrough ==
    /\ UNCHANGED <<varsU, varsG, varsS>>
    /\ pc = "loop"
    /\ pos <= Len(draw_cmds)
    /\ draw_cmds[pos].type = "Primitive"
    /\ draw_cmds[pos].ni = 0
    /\ draw_cmds[pos].nv = 0
    /\ pos' = pos + 1
    /\ render_commands' = Append(render_commands, SetBindGroup(default_texture_handle))
    /\ UNCHANGED <<log, pc, todo, cur, draw_cmds, curr_ctxt, curr_start_index,
                   curr_pipeline_id, curr_scissor, mesh_points,
                   mesh_indices, vertex_mode_buffer, pipelines, out, replayed>>

\* DrawCommand::Primitive whose render appends no index and no vertex: lib.rs:237-244.
ReplayDegenerate ==
    /\ UNCHANGED <<varsU, varsG, varsS>>
    /\ pc = "loop"
    /\ pos <= Len(draw_cmds)
    /\ draw_cmds[pos].type = "Primitive"
    /\ draw_cmds[pos].ni = 0
    /\ draw_cmds[pos].nv = 0
    /\ pos' = pos + 1
    /\ UNCHANGED <<log, pc, todo, cur, draw_cmds, curr_ctxt, curr_start_index,
                   curr_pipeline_id, curr_scissor, render_commands, mesh_points,
                   mesh_indices, vertex_mode_buffer, pipelines, out, replayed>>

\* DrawCommand::Primitive whose render appends vertices and no index: the
\* assert_eq! of lib.rs:238-242 panics.
ReplayInconsistent ==
    /\ UNCHANGED <<varsU, varsG, varsS>>
    /\ pc = "loop"
    /\ pos <= Len(draw_cmds)
    /\ draw_cmds[pos].type = "Primitive"
    /\ draw_cmds[pos].ni = 0
    /\ draw_cmds[pos].nv # 0
    /\ mesh_points' = mesh_points \o Repeat(draw_cmds[pos].nv, pos)
    /\ pc' = "panicked"
    /\ UNCHANGED <<log, todo, cur, draw_cmds, pos, curr_ctxt, curr_start_index,
                   curr_pipeline_id, curr_scissor, render_commands, mesh_indices,
                   vertex_mode_buffer, pipelines, out, replayed>>

\* DrawCommand::Primitive whose render appends indices: lib.rs:211-333.
ReplayGeometry ==
    /\ UNCHANGED <<varsU, varsG, varsS>>
    /\ pc = "loop"
    /\ pos <= Len(draw_cmds)
    /\ draw_cmds[pos].type = "Primitive"
    /\ draw_cmds[pos].ni # 0
    /\ LET prim == draw_cmds[pos]
           prev_index_count == Len(mesh_indices)
           points == mesh_points \o Repeat(prim.nv, pos)
           indices == mesh_indices \o Repeat(prim.ni, pos)
           spec == Specialize(pipelines, NannouPipelineKey(curr_ctxt))
           new_pipeline_id == spec.id
           new_scissor == curr_ctxt.scissor
           pipeline_changed == PipelineChanged(new_pipeline_id, curr_pipeline_id)
           scissor_changed == ScissorChanged(new_scissor, curr_scissor)
           flushed ==
               IF FlushNeeded(scissor_changed, pipeline_changed)
               THEN push_draw_cmd(curr_start_index, prev_index_count, render_commands)
               ELSE [curr_start_index |-> curr_start_index,
                     render_commands |-> render_commands]
           new_vs == Max(0, Len(points) - Len(vertex_mode_buffer))
       IN  /\ mesh_points' = points
           /\ mesh_indices' = indices
           /\ pipelines' = spec.cache
           /\ curr_start_index' = flushed.curr_start_index
           /\ curr_pipeline_id' =
                  IF pipeline_changed THEN Some(new_pipeline_id) ELSE curr_pipeline_id
           /\ curr_scissor' = NextScissor(scissor_changed, new_scissor, curr_scissor)
           /\ render_commands' =
                  flushed.render_commands
                      \o StateCommands(pipeline_changed, scissor_changed, new_pipeline_id,
                                       DeriveScissor(Window, curr_ctxt.scissor))
           /\ vertex_mode_buffer' = vertex_mode_buffer \o Repeat(new_vs, prim.mode)
           /\ replayed' =
                  Append(replayed,
                         [cmd |-> pos, ctxt |-> curr_ctxt,
                          first |-> prev_index_count, last |-> Len(indices)])
    /\ pos' = pos + 1
    /\ UNCHANGED <<log, pc, todo, cur, draw_cmds, curr_ctxt, out>>

\* An end of the loop that inserts the commands without the final push_draw_cmd.
FinishViewNoFlush ==
    /\ UNCHANGED <<varsU, varsG, varsS>>
    /\ pc = "loop"
    /\ pos > Len(draw_cmds)
    /\ out' = [out EXCEPT ![cur] =
                  Some([points |-> mesh_points, indices |-> mesh_indices,
                        render_commands |-> render_commands])]
    /\ todo' = Tail(todo)
    /\ pc' = "views"
    /\ UNCHANGED <<log, cur, draw_cmds, pos, curr_ctxt, curr_start_index, render_commands,
                   curr_pipeline_id, curr_scissor, mesh_points, mesh_indices,
                   vertex_mode_buffer, pipelines, replayed>>

\* After the loop: the final push_draw_cmd and the insert, lib.rs:337-343.
FinishView ==
    /\ UNCHANGED <<varsU, varsG, varsS>>
    /\ pc = "loop"
    /\ pos > Len(draw_cmds)
    /\ LET flushed == push_draw_cmd(curr_start_index, Len(mesh_indices), render_commands)
       IN  /\ curr_start_index' = flushed.curr_start_index
           /\ render_commands' = flushed.render_commands
           /\ out' = [out EXCEPT ![cur] =
                         Some([points |-> mesh_points, indices |-> mesh_indices,
                               render_commands |-> flushed.render_commands])]
    /\ todo' = Tail(todo)
    /\ pc' = "views"
    /\ UNCHANGED <<log, cur, draw_cmds, pos, curr_ctxt, curr_pipeline_id, curr_scissor,
                   mesh_points, mesh_indices, vertex_mode_buffer, pipelines, replayed>>

\* The query is exhausted: prepare_view_mesh returns.
EndPass ==
    /\ UNCHANGED <<varsU, varsG, varsS>>
    /\ pc = "views"
    /\ todo = <<>>
    /\ pc' = "done"
    /\ UNCHANGED <<log, todo, cur, locals, vertex_mode_buffer, pipelines, out>>

Next ==
    \/ \E v \in DOMAIN log, cmd \in DrawCommands : Record(v, cmd)
    \/ StartPass
    \/ \E target \in TargetKinds : SkipView(target)
    \/ \E target \in TargetKinds : BeginView(target)
    \/ ReplayContext
    \/ ReplayDegenerate
    \/ ReplayInconsistent
    \/ ReplayGeometry
    \/ FinishView
    \/ EndPass

Spec == Init /\ [][Next]_vars

\* The same pass over two views, each with its own Draw log.
TwoViews == {1, 2}

InitViews == InitOver(TwoViews)

SpecViews == InitViews /\ [][Next]_vars


(***************************************************************************)
(* update_draw_mesh (render.rs:166-183) and the recording threads.         *)
(***************************************************************************)

\* Most entries pushed into the draw command lists of the Draws.
MaxPushes == 3

\* A recorded command: a closure run on the World. rec is the Draw it records
\* a further command into when it runs, 0 when it records nothing.
Command(id, d, rec) == [id |-> id, draw |-> d, rec |-> rec]

IsSome(e) == e # None
IsRecorder(e) == e # None /\ e[1].rec # 0

\* The commands of a list of Option<command>, in order.
Commands(l) == [k \in 1..Len(SelectSeq(l, IsSome)) |-> SelectSeq(l, IsSome)[k][1]]

RECURSIVE Flatten(_)
Flatten(ls) == IF ls = <<>> THEN <<>> ELSE Head(ls) \o Flatten(Tail(ls))

\* An execution loop that runs a list from its end.
RunOrderReversed(l) == [k \in 1..Len(l) |-> l[Len(l) + 1 - k]]

\* for cmd in cmds, render.rs:177: the list is visited from its start.
RunOrder(l) == l

\* The entries of the taken lists that the loops of render.rs:176-177 have
\* still to visit.
PendingTaken ==
    IF upc \in {"iter", "read"} THEN Flatten(taken)
    ELSE IF upc = "exec"
    THEN Flatten([i \in 1..Len(taken) |->
                    IF i < ti THEN <<>>
                    ELSE IF i = ti THEN SubSeq(RunOrder(taken[i]), tj, Len(taken[i]))
                    ELSE taken[i]])
    ELSE <<>>

\* Entries that recorded commands will still push when they run.
Reserved ==
    Len(SelectSeq(PendingTaken, IsRecorder))
        + SeqSum([i \in 1..Len(SetToSeq(DrawEntities)) |->
                    Len(SelectSeq(draw_commands[SetToSeq(DrawEntities)[i]], IsRecorder))])

\* A write() that does not wait for the holder of the lock.
StateWriteIgnoresHolders(holders) == TRUE

\* draw.state.write() at render.rs:171 returns once nobody holds the lock.
StateWrite(holders) == holders = {}

\* std::mem::take(&mut state.draw_commands), render.rs:172.
TakeState(l) == [taken |-> l, left |-> <<>>]

\* The Update schedule runs update_draw_mesh: render.rs:169-170.
UpdateStart ==
    /\ UNCHANGED <<varsB, varsG, varsS>>
    /\ UNCHANGED recorded
    /\ upc \in {"idle", "done"}
    /\ upc' = "iter"
    /\ uq' = SetToSeq(DrawEntities)
    /\ taken' = <<>>
    /\ ti' = 1
    /\ tj' = 1
    /\ ran_from' = Len(world)
    /\ UNCHANGED <<draw_commands, state_lock, tmp, world, prod, pushes>>

\* render.rs:171-172: the write lock is acquired and the take reads the list.
TakeLock ==
    /\ UNCHANGED <<varsB, varsG, varsS>>
    /\ UNCHANGED recorded
    /\ upc = "iter"
    /\ uq # <<>>
    /\ StateWrite(state_lock[Head(uq)])
    /\ state_lock' = [state_lock EXCEPT ![Head(uq)] = @ \cup {"system"}]
    /\ tmp' = draw_commands[Head(uq)]
    /\ upc' = "read"
    /\ UNCHANGED <<draw_commands, uq, taken, ti, tj, world, ran_from, prod, pushes>>

\* A take whose lock guard lives on after the closure has returned.
TakeClearKeepsLock ==
    /\ UNCHANGED <<varsB, varsG, varsS>>
    /\ UNCHANGED recorded
    /\ upc = "read"
    /\ draw_commands' = [draw_commands EXCEPT ![Head(uq)] = TakeState(tmp).left]
    /\ taken' = Append(taken, TakeState(tmp).taken)
    /\ tmp' = <<>>
    /\ uq' = Tail(uq)
    /\ upc' = "iter"
    /\ UNCHANGED <<state_lock, ti, tj, world, ran_from, prod, pushes>>

\* render.rs:172-173: the take leaves the default list, the closure returns
\* what it took and drops the lock guard.
TakeClear ==
    /\ UNCHANGED <<varsB, varsG, varsS>>
    /\ UNCHANGED recorded
    /\ upc = "read"
    /\ draw_commands' = [draw_commands EXCEPT ![Head(uq)] = TakeState(tmp).left]
    /\ taken' = Append(taken, TakeState(tmp).taken)
    /\ tmp' = <<>>
    /\ state_lock' = [state_lock EXCEPT ![Head(uq)] = @ \ {"system"}]
    /\ uq' = Tail(uq)
    /\ upc' = "iter"
    /\ UNCHANGED <<ti, tj, world, ran_from, prod, pushes>>

\* render.rs:174-176: every Draw has been drained, the execution starts.
StartExec ==
    /\ UNCHANGED <<varsB, varsG, varsS>>
    /\ UNCHANGED recorded
    /\ upc = "iter"
    /\ uq = <<>>
    /\ upc' = "exec"
    /\ UNCHANGED <<draw_commands, state_lock, uq, tmp, taken, ti, tj, world,
                   ran_from, prod, pushes>>

AtEntry == upc = "exec" /\ ti <= Len(taken) /\ tj <= Len(taken[ti])

\* The entry the inner loop of render.rs:177 visits next.
Entry == RunOrder(taken[ti])[tj]

\* render.rs:178: a None entry is passed over.
ExecNone ==
    /\ UNCHANGED <<varsB, varsG, varsS>>
    /\ UNCHANGED recorded
    /\ AtEntry
    /\ Entry = None
    /\ tj' = tj + 1
    /\ UNCHANGED <<draw_commands, state_lock, upc, uq, tmp, taken, ti, world,
                   ran_from, prod, pushes>>

\* render.rs:178-179: cmd(world) for a command that records nothing.
ExecCommand ==
    /\ UNCHANGED <<varsB, varsG, varsS>>
    /\ UNCHANGED recorded
    /\ AtEntry
    /\ Entry # None
    /\ Entry[1].rec = 0
    /\ world' = Append(world, Entry[1])
    /\ tj' = tj + 1
    /\ UNCHANGED <<draw_commands, state_lock, upc, uq, tmp, taken, ti, ran_from,
                   prod, pushes>>

\* render.rs:178-179: cmd(world) for a command that records a command into a
\* Draw, which takes that Draw's write lock for the push.
ExecRecording ==
    /\ UNCHANGED <<varsB, varsG, varsS>>
    /\ AtEntry
    /\ Entry # None
    /\ Entry[1].rec # 0
    /\ state_lock[Entry[1].rec] = {}
    /\ world' = Append(world, Entry[1])
    /\ draw_commands' =
           [draw_commands EXCEPT ![Entry[1].rec] =
               Append(@, Some(Command(pushes + 1, Entry[1].rec, 0)))]
    /\ pushes' = pushes + 1
    /\ recorded' = Append(recorded, Command(pushes + 1, Entry[1].rec, 0))
    /\ tj' = tj + 1
    /\ UNCHANGED <<state_lock, upc, uq, tmp, taken, ti, ran_from, prod>>

\* render.rs:176: the inner loop has ended, the next list is taken.
NextList ==
    /\ UNCHANGED <<varsB, varsG, varsS>>
    /\ UNCHANGED recorded
    /\ upc = "exec"
    /\ ti <= Len(taken)
    /\ tj > Len(taken[ti])
    /\ ti' = ti + 1
    /\ tj' = 1
    /\ UNCHANGED <<draw_commands, state_lock, upc, uq, tmp, taken, world, ran_from,
                   prod, pushes>>

\* render.rs:183: update_draw_mesh returns.
UpdateReturn ==
    /\ UNCHANGED <<varsB, varsG, varsS>>
    /\ UNCHANGED recorded
    /\ upc = "exec"
    /\ ti > Len(taken)
    /\ upc' = "done"
    /\ UNCHANGED <<draw_commands, state_lock, uq, tmp, taken, ti, tj, world,
                   ran_from, prod, pushes>>

\* A thread that holds a Draw takes the write lock of its state to record.
ProducerLock(d) ==
    /\ UNCHANGED <<varsB, varsG, varsS>>
    /\ UNCHANGED recorded
    /\ prod = <<>>
    /\ state_lock[d] = {}
    /\ pushes + Reserved < MaxPushes
    /\ state_lock' = [state_lock EXCEPT ![d] = {"producer"}]
    /\ prod' = <<d>>
    /\ UNCHANGED <<draw_commands, upc, uq, tmp, taken, ti, tj, world, ran_from, pushes>>

\* The thread pushes an empty slot under the lock and releases the lock.
ProducerPushNone ==
    /\ UNCHANGED <<varsB, varsG, varsS>>
    /\ UNCHANGED recorded
    /\ prod # <<>>
    /\ draw_commands' = [draw_commands EXCEPT ![prod[1]] = Append(@, None)]
    /\ pushes' = pushes + 1
    /\ state_lock' = [state_lock EXCEPT ![prod[1]] = @ \ {"producer"}]
    /\ prod' = <<>>
    /\ UNCHANGED <<upc, uq, tmp, taken, ti, tj, world, ran_from>>

\* The thread pushes a command under the lock and releases the lock.
ProducerPush(rec) ==
    /\ UNCHANGED <<varsB, varsG, varsS>>
    /\ prod # <<>>
    /\ rec # 0 => pushes + Reserved + 1 < MaxPushes
    /\ draw_commands' =
           [draw_commands EXCEPT ![prod[1]] =
               Append(@, Some(Command(pushes + 1, prod[1], rec)))]
    /\ recorded' = Append(recorded, Command(pushes + 1, prod[1], rec))
    /\ pushes' = pushes + 1
    /\ state_lock' = [state_lock EXCEPT ![prod[1]] = @ \ {"producer"}]
    /\ prod' = <<>>
    /\ UNCHANGED <<upc, uq, tmp, taken, ti, tj, world, ran_from>>

NextUpdate ==
    \/ UpdateStart
    \/ TakeLock
    \/ TakeClear
    \/ StartExec
    \/ ExecNone
    \/ ExecCommand
    \/ ExecRecording
    \/ NextList
    \/ UpdateReturn
    \/ \E d \in DrawEntities : ProducerLock(d)
    \/ ProducerPushNone
    \/ \E rec \in {0} \cup DrawEntities : ProducerPush(rec)

SpecUpdate == Init /\ [][NextUpdate]_vars

(***************************************************************************)
(* The calls on the glyph cache.                                           *)
(***************************************************************************)
\* A text render asks for a glyph.
GetOrInsert(key) ==
    /\ UNCHANGED <<varsB, varsU, varsS>>
    /\ Len(gc_hist) < MaxGlyphOps
    /\ LET r == get_or_insert(gc_entries, key)
       IN  /\ gc_entries' = r.entries
           /\ gc_dirty' = DirtyAfter(gc_dirty, r.rasterized /\ r.rect # None)
           /\ gc_hist' = Append(gc_hist, [op |-> "get_or_insert", key |-> key,
                                          rect |-> r.rect, rasterized |-> r.rasterized,
                                          evicted |-> r.evicted])
           /\ gc_last_use' =
                  IF r.rect = None THEN gc_last_use
                  ELSE [gc_last_use EXCEPT ![key] = Len(gc_hist) + 1]

\* The upload step acknowledges the upload of the atlas.
Acknowledge ==
    /\ UNCHANGED <<varsB, varsU, varsS>>
    /\ Len(gc_hist) < MaxGlyphOps
    /\ gc_dirty' = FALSE
    /\ gc_hist' = Append(gc_hist, [op |-> "acknowledge"])
    /\ UNCHANGED <<gc_entries, gc_last_use>>

NextGlyph ==
    \/ \E key \in GlyphKeys : GetOrInsert(key)
    \/ Acknowledge

SpecGlyph == Init /\ [][NextGlyph]_vars

(***************************************************************************)
(* The scissor derivation as a step of its own.                            *)
(***************************************************************************)
\* The first Context command puts the scissor s into the tracker.
ContextScissor(s) ==
    /\ sc_in = None
    /\ UNCHANGED <<varsB, varsU, varsG>>
    /\ sc_in' = Some(s)
    /\ sc_out' = None

\* The scissor changed: the Scissor of lib.rs:304-319 is pushed.
EmitScissor ==
    /\ UNCHANGED <<varsB, varsU, varsG>>
    /\ sc_in # None
    /\ sc_out = None
    /\ sc_out' = Some(DeriveScissor(Window, sc_in[1]))
    /\ UNCHANGED sc_in

NextScissorStep ==
    \/ /\ sc_in = None
       /\ \E s \in ScissorInputs : ContextScissor(s)
    \/ EmitScissor

SpecScissor == Init /\ [][NextScissorStep]_vars

(***************************************************************************)
(* Claims about prepare_view_mesh.                                         *)
(***************************************************************************)

\* The batching of the view taken last has run to its insert (lib.rs:343).
Finished == pc \in {"views", "done"} /\ cur # 0 /\ out[cur] # None

OutCmds == out[cur][1].render_commands
OutIndices == out[cur][1].indices

IsDraw(c) == c.type = "DrawIndexed"
Draws(cmds) == SelectSeq(cmds, IsDraw)

\* Positions of the commands of a type in a command list.
PositionsOf(cmds, t) == {k \in 1..Len(cmds) : cmds[k].type = t}

\* The last command of type t before position k (0 when there is none).
LastBefore(cmds, k, t) ==
    LET before == {j \in PositionsOf(cmds, t) : j < k}
    IN  IF before = {} THEN 0 ELSE CHOOSE j \in before : \A i \in before : i <= j

\* The DrawIndexed commands whose range holds the index range first..last.
Covering(cmds, first, last) ==
    {k \in PositionsOf(cmds, "DrawIndexed") : cmds[k].start <= first /\ last <= cmds[k].end}

SamePipelineAndScissor(r1, r2) ==
    /\ NannouPipelineKey(r1.ctxt) = NannouPipelineKey(r2.ctxt)
    /\ r1.ctxt.scissor = r2.ctxt.scissor

\* C1: after a batching pass the DrawIndexed commands, in output order, tile
\* the index buffer: the first starts at 0, each later one starts where the
\* previous one ended, the last ends at mesh.indices().len(), and a mesh with
\* indices has at least one of them.
C1_DrawRangesTileIndexBuffer ==
    Finished =>
        LET d == Draws(OutCmds)
            n == Len(OutIndices)
        IN  /\ d = <<>> => n = 0
            /\ d # <<>> => d[1].start = 0 /\ Last(d).end = n
            /\ \A k \in 1..Len(d) : d[k].start <= d[k].end /\ d[k].end <= n
            /\ \A k \in 1..(Len(d) - 1) : d[k + 1].start = d[k].end

C1_Witness == Finished /\ Len(Draws(OutCmds)) >= 2

\* C2: every primitive that appended indices is covered by a DrawIndexed whose
\* most recent SetPipeline carries the id specialised from the context the
\* primitive was replayed under and whose most recent SetScissor carries the
\* rectangle derived from that context's scissor; primitives covered by one
\* DrawIndexed share the pipeline id and the scissor rectangle.
C2_DrawRunsUnderPrimitiveState ==
    Finished =>
        /\ \A i \in 1..Len(replayed) :
              LET r == replayed[i]
              IN  \E k \in Covering(OutCmds, r.first, r.last) :
                     LET p == LastBefore(OutCmds, k, "SetPipeline")
                         s == LastBefore(OutCmds, k, "SetScissor")
                     IN  /\ p # 0
                         /\ OutCmds[p].id = CachedId(pipelines, NannouPipelineKey(r.ctxt))
                         /\ s # 0
                         /\ OutCmds[s].scissor = DeriveScissor(Window, r.ctxt.scissor)
        /\ \A i, j \in 1..Len(replayed) :
              Covering(OutCmds, replayed[i].first, replayed[i].last)
                    \cap Covering(OutCmds, replayed[j].first, replayed[j].last) # {}
                 => /\ CachedId(pipelines, NannouPipelineKey(replayed[i].ctxt))
                          = CachedId(pipelines, NannouPipelineKey(replayed[j].ctxt))
                    /\ DeriveScissor(Window, replayed[i].ctxt.scissor)
                          = DeriveScissor(Window, replayed[j].ctxt.scissor)

C2_Witness ==
    /\ Finished
    /\ \E i, j \in 1..Len(replayed) :
          /\ replayed[i].ctxt.scissor # replayed[j].ctxt.scissor
          /\ replayed[i].ctxt.blend # replayed[j].ctxt.blend

\* C3: batching never reorders: indices of an earlier primitive lie below the
\* indices of a later one in the index buffer, and the DrawIndexed covering
\* the earlier primitive comes no later in the command list than the one
\* covering the later primitive.
C3_PrimitivesKeepOrder ==
    Finished =>
        /\ \A p, q \in 1..Len(OutIndices) : OutIndices[p] < OutIndices[q] => p < q
        /\ \A i, j \in 1..Len(replayed) :
              i < j =>
                 /\ replayed[i].cmd < replayed[j].cmd
                 /\ replayed[i].last <= replayed[j].first
                 /\ \A a \in Covering(OutCmds, replayed[i].first, replayed[i].last) :
                       \A b \in Covering(OutCmds, replayed[j].first, replayed[j].last) : a <= b
        /\ \A i \in 1..Len(replayed) :
              Covering(OutCmds, replayed[i].first, replayed[i].last) # {}

C3_Witness ==
    /\ Finished
    /\ Len(replayed) >= 2
    /\ Len(Draws(OutCmds)) >= 2

\* C4: N >= 1 primitives that appended indices and share pipeline key and
\* scissor give exactly one DrawIndexed, of range 0..mesh.indices().len().
C4_SharedStateGivesOneDraw ==
    (/\ Finished
     /\ replayed # <<>>
     /\ \A i, j \in 1..Len(replayed) : SamePipelineAndScissor(replayed[i], replayed[j]))
        => /\ Len(Draws(OutCmds)) = 1
           /\ Draws(OutCmds)[1].start = 0
           /\ Draws(OutCmds)[1].end = Len(OutIndices)

C4_Witness ==
    /\ Finished
    /\ Len(replayed) >= 2
    /\ \A i, j \in 1..Len(replayed) : SamePipelineAndScissor(replayed[i], replayed[j])
    /\ replayed[1].ctxt # DefaultContext

\* The primitives before position a + 1 ran under one scissor, the rest under
\* another one, all with the same pipeline key.
SplitByScissorAt(a) ==
    /\ a \in 1..(Len(replayed) - 1)
    /\ \A i \in 1..a : replayed[i].ctxt.scissor = replayed[1].ctxt.scissor
    /\ \A i \in (a + 1)..Len(replayed) : replayed[i].ctxt.scissor = replayed[a + 1].ctxt.scissor
    /\ replayed[1].ctxt.scissor # replayed[a + 1].ctxt.scissor
    /\ \A i \in 1..Len(replayed) :
          NannouPipelineKey(replayed[i].ctxt) = NannouPipelineKey(replayed[1].ctxt)

\* C5: one scissor change between primitives of one pipeline key gives exactly
\* two DrawIndexed commands, the first over the indices of the primitives
\* before the change and the second over the rest, with exactly one
\* SetScissor between them.
C5_ScissorChangeSplitsInTwo ==
    Finished =>
        \A a \in 1..Len(replayed) :
            SplitByScissorAt(a) =>
                LET d == Draws(OutCmds)
                    at == PositionsOf(OutCmds, "DrawIndexed")
                IN  /\ Len(d) = 2
                    /\ d[1].start = 0 /\ d[1].end = replayed[a].last
                    /\ d[2].start = replayed[a].last /\ d[2].end = Len(OutIndices)
                    /\ \A k1, k2 \in at :
                          k1 < k2 =>
                             Cardinality({s \in PositionsOf(OutCmds, "SetScissor") :
                                             k1 < s /\ s < k2}) = 1

C5_Witness == Finished /\ \E a \in 1..Len(replayed) : SplitByScissorAt(a)

\* Payload of the last Context command among the first n commands, the default
\* context when there is none.
LastContext(cmds, n) ==
    LET at == {k \in 1..n : cmds[k].type = "Context"}
    IN  IF at = {} THEN DefaultContext
        ELSE cmds[CHOOSE k \in at : \A j \in at : j <= k].ctxt

\* C6: the tracker is the default context until a Context command is
\* replayed, and then the whole payload of the last Context command replayed.
C6_TrackerIsLastContext == curr_ctxt = LastContext(draw_cmds, pos - 1)

C6_Witness ==
    /\ pc = "loop"
    /\ pos = 3
    /\ draw_cmds[1].type = "Context"
    /\ draw_cmds[2].type = "Context"
    /\ Differing(draw_cmds[1].ctxt, DefaultContext) = {"transform"}
    /\ Differing(draw_cmds[2].ctxt, DefaultContext) = {"blend"}

\* C9: the log of every Draw is drained on every batching pass, whatever the
\* view's camera target resolves to: it is empty when the pass has ended.
C9_EveryLogDrainedByPass == pc = "done" => \A v \in DOMAIN log : log[v] = <<>>

\* Rank of a render command in the order draw, pipeline, bind group, scissor.
Rank(c) ==
    CASE c.type = "DrawIndexed" -> 1
      [] c.type = "SetPipeline" -> 2
      [] c.type = "SetBindGroup" -> 3
      [] OTHER -> 4

\* The commands a step appended to render_commands.
Pushed == SubSeq(render_commands', Len(render_commands) + 1, Len(render_commands'))

\* C10: the render commands pushed while one primitive is processed come in
\* the order DrawIndexed flush, SetPipeline, SetBindGroup, SetScissor, each at
\* most once, with the SetBindGroup always there for a primitive with indices.
C10_StateCommandOrder ==
    [][(pc = "loop" /\ pos' = pos + 1 /\ draw_cmds[pos].type = "Primitive")
          => /\ Len(render_commands') >= Len(render_commands)
             /\ SubSeq(render_commands', 1, Len(render_commands)) = render_commands
             /\ \A a, b \in 1..Len(Pushed) : a < b => Rank(Pushed[a]) < Rank(Pushed[b])
             /\ draw_cmds[pos].ni # 0 => \E a \in 1..Len(Pushed) : Rank(Pushed[a]) = 3
             /\ draw_cmds[pos].ni = 0 => Pushed = <<>>]_vars

C10_Witness ==
    /\ pc = "loop"
    /\ \E k \in 1..(Len(render_commands) - 3) :
          /\ render_commands[k].type = "DrawIndexed"
          /\ render_commands[k + 1].type = "SetPipeline"
          /\ render_commands[k + 2].type = "SetBindGroup"
          /\ render_commands[k + 3].type = "SetScissor"


(***************************************************************************)
(* Claims about update_draw_mesh.                                          *)
(***************************************************************************)

\* The commands the running (or last) update_draw_mesh has executed.
Ran == SubSeq(world, ran_from + 1, Len(world))

\* The commands of a sequence that were recorded into Draw d.
OfDraw(cmds, d) == SelectSeq(cmds, LAMBDA c : c.draw = d)

\* C7: update_draw_mesh takes the whole list of a Draw and leaves it empty,
\* and when it returns it has executed the commands it took, each once, in
\* the order of the lists and in recording order within a list.
C7_DrainCompleteFifoOnce ==
    [][/\ (upc = "read" /\ upc' = "iter")
            => /\ taken' = Append(taken, draw_commands[Head(uq)])
               /\ draw_commands'[Head(uq)] = <<>>
       /\ upc' = "done" => Ran' = Commands(Flatten(taken'))]_vars

C7_Witness ==
    /\ upc = "done"
    /\ Len(taken) = 2
    /\ Len(Commands(taken[1])) >= 1
    /\ Len(Commands(taken[2])) >= 2

\* C8: whatever a recording thread does while the drain runs, the commands
\* recorded into a Draw are, in recording order and each exactly once, the
\* ones already executed, then the ones drained and not yet executed, then
\* the ones left in the Draw's list for the next drain.
C8_DrainAtomicWithAppends ==
    \A d \in DrawEntities :
        OfDraw(world, d) \o OfDraw(Commands(PendingTaken), d) \o Commands(draw_commands[d])
            = OfDraw(recorded, d)

C8_Witness ==
    /\ upc = "iter"
    /\ Len(taken) >= 1
    /\ Ran = <<>>
    /\ Commands(taken[1]) # <<>>
    /\ Commands(draw_commands[SetToSeq(DrawEntities)[1]]) # <<>>

(***************************************************************************)
(* Further claims about prepare_view_mesh.                                 *)
(***************************************************************************)

\* The step replays the primitive at pos, whose render appends indices.
GeometryStep ==
    /\ pc = "loop"
    /\ pos <= Len(draw_cmds)
    /\ pos' = pos + 1
    /\ draw_cmds[pos].type = "Primitive"
    /\ draw_cmds[pos].ni # 0

\* Neither the pipeline id nor the scissor of the tracker differs from the
\* current one.
StateUnchanged ==
    /\ ~PipelineChanged(Specialize(pipelines, NannouPipelineKey(curr_ctxt)).id,
                        curr_pipeline_id)
    /\ ~ScissorChanged(curr_ctxt.scissor, curr_scissor)

\* C11: a primitive with indices that changes neither the pipeline id nor the
\* scissor appends no render command; SetBindGroup comes only with a state
\* change.
C11_NoCommandWithoutStateChange ==
    [][(GeometryStep /\ StateUnchanged) => render_commands' = render_commands]_vars

\* The primitive with indices replayed before the one at pos ran under the
\* same pipeline key and under a scissor of another value that derives to
\* the same rectangle.
SameRectangleOtherScissor ==
    /\ replayed # <<>>
    /\ NannouPipelineKey(Last(replayed).ctxt) = NannouPipelineKey(curr_ctxt)
    /\ Last(replayed).ctxt.scissor # curr_ctxt.scissor
    /\ DeriveScissor(Window, Last(replayed).ctxt.scissor)
          = DeriveScissor(Window, curr_ctxt.scissor)

\* C12: the scissor change is detected on the derived rectangle: between two
\* primitives whose scissors differ and derive to one rectangle there is no
\* DrawIndexed flush and no SetScissor.
C12_ChangeDetectedOnDerivedRectangle ==
    [][(GeometryStep /\ SameRectangleOtherScissor)
          => \A k \in 1..Len(Pushed) : Pushed[k].type \notin {"DrawIndexed", "SetScissor"}]_vars


\* The pending index range is empty when the loop makes its step: nothing has
\* been appended since the last flush.
PendingRangeEmpty == pc = "loop" /\ curr_start_index = Len(mesh_indices)

\* C13: no DrawIndexed with an empty index range is ever in the render
\* commands; a flush over an empty pending range, before a primitive's state
\* commands or at the end of the view, pushes no DrawIndexed and leaves the
\* cursor where it was.
C13_NoEmptyDrawRange ==
    [][/\ \A k \in 1..Len(render_commands') :
              IsDraw(render_commands'[k]) => render_commands'[k].start < render_commands'[k].end
       /\ PendingRangeEmpty =>
              /\ curr_start_index' = curr_start_index
              /\ \A k \in 1..Len(Pushed) : ~IsDraw(Pushed[k])]_vars

\* A finished view with draws whose first command is the SetPipeline of the
\* first primitive: the flush before it ran over the empty range 0..0.
C13_Witness ==
    /\ Finished
    /\ replayed # <<>>
    /\ OutCmds[1].type = "SetPipeline"
    /\ Len(Draws(OutCmds)) >= 1


\* The scissor derives to a rectangle of zero width and zero height.
ZeroArea(scissor) ==
    LET r == DeriveScissor(Window, scissor)
    IN  r.width = 0 /\ r.height = 0

\* C14: a primitive replayed under a scissor that derives to a zero-area
\* rectangle has its indices covered by no DrawIndexed command.
C14_NothingDrawnUnderZeroAreaScissor ==
    Finished =>
        \A a \in 1..Len(replayed) :
            ZeroArea(replayed[a].ctxt.scissor)
                => \A k \in PositionsOf(OutCmds, "DrawIndexed") :
                       OutCmds[k].end <= replayed[a].first \/ replayed[a].last <= OutCmds[k].start


\* The render of the primitive appends vertices without indices, or indices
\* without vertices.
InconsistentGrowth(prim) ==
    \/ prim.nv # 0 /\ prim.ni = 0
    \/ prim.ni # 0 /\ prim.nv = 0

\* C15: a primitive whose render grows the mesh inconsistently, in either
\* direction, makes the pass panic before any command is emitted for it.
C15_InconsistentGrowthIsFatal ==
    [][(/\ pc = "loop"
        /\ pos <= Len(draw_cmds)
        /\ draw_cmds[pos].type = "Primitive"
        /\ InconsistentGrowth(draw_cmds[pos]))
          => pc' = "panicked" /\ render_commands' = render_commands]_vars


(***************************************************************************)
(* Claims about the glyph cache.                                           *)
(***************************************************************************)
IsGet(h) == h.op = "get_or_insert"

\* The call asked for the key.
Asks(h, key) == IsGet(h) /\ h.key = key

\* The call evicted the key.
Evicts(h, key) == IsGet(h) /\ \E n \in 1..Len(h.evicted) : h.evicted[n] = key

\* The call wrote a rasterized glyph into the atlas.
Placed(h) == IsGet(h) /\ h.rasterized /\ h.rect # None

\* Calls i < j ask for one key, call i returned a rectangle and the key is not
\* evicted by a call after i and before j.
SameKeyKept(i, j) ==
    /\ i < j
    /\ IsGet(gc_hist[i])
    /\ gc_hist[i].rect # None
    /\ Asks(gc_hist[j], gc_hist[i].key)
    /\ \A k \in (i + 1)..(j - 1) : ~Evicts(gc_hist[k], gc_hist[i].key)

Resident == {gc_entries[i].key : i \in 1..Len(gc_entries)}

\* The step is a get_or_insert call.
GetStep == Len(gc_hist') = Len(gc_hist) + 1 /\ IsGet(Last(gc_hist'))

\* C17: eviction is least-recently-used: each entry a request evicts is one in
\* the cache whose last use (insert or hit) is not later than that of any
\* entry still in the cache at that moment, so a hit protects an entry as an
\* insert does; and a request for a key evicted since it was last asked for
\* invokes the rasterize callback again.
C17_EvictionIsLeastRecentlyUsed ==
    [][GetStep =>
          LET call == Last(gc_hist')
              ev == call.evicted
          IN  /\ \A n \in 1..Len(ev) :
                     /\ ev[n] \in Resident
                     /\ \A k \in Resident \ {ev[m] : m \in 1..(n - 1)} :
                            gc_last_use[ev[n]] <= gc_last_use[k]
              /\ \A i \in 1..Len(gc_hist) :
                     (/\ Evicts(gc_hist[i], call.key)
                      /\ \A k \in (i + 1)..Len(gc_hist) : ~Asks(gc_hist[k], call.key))
                         => call.rasterized]_vars

\* A key is inserted, a second key is inserted after it, the first key is hit,
\* a later request evicts the second key and keeps the first, and the second
\* key is then asked for and rasterized again.
C17_Witness ==
    \E i, j, h, k, l \in 1..Len(gc_hist) :
        /\ i < j /\ j < h /\ h < k /\ k < l
        /\ Placed(gc_hist[i])
        /\ Placed(gc_hist[j])
        /\ Asks(gc_hist[h], gc_hist[i].key) /\ ~gc_hist[h].rasterized
        /\ Evicts(gc_hist[k], gc_hist[j].key)
        /\ ~Evicts(gc_hist[k], gc_hist[i].key)
        /\ Asks(gc_hist[l], gc_hist[j].key) /\ gc_hist[l].rasterized

\* A glyph was written into the atlas by a call of h that no acknowledge follows.
PlacedSinceAcknowledge(h) ==
    \E i \in 1..Len(h) :
        /\ Placed(h[i])
        /\ \A k \in (i + 1)..Len(h) : h[k].op # "acknowledge"

\* C18: the dirty flag is set whenever a glyph was rasterized into the atlas
\* since the last acknowledgment, and only the acknowledgment clears it: no
\* hit, eviction or failed request does.
C18_DirtyUntilAcknowledged ==
    [][/\ PlacedSinceAcknowledge(gc_hist') => gc_dirty'
       /\ (gc_dirty /\ ~gc_dirty')
              => Len(gc_hist') = Len(gc_hist) + 1 /\ Last(gc_hist').op = "acknowledge"]_vars

\* After an acknowledgment a glyph is placed, then come a hit and a request
\* that evicts, and the flag is still set.
C18_Witness ==
    /\ gc_dirty
    /\ \E i, j, k, l \in 1..Len(gc_hist) :
          /\ i < j /\ j < k /\ j < l
          /\ gc_hist[i].op = "acknowledge"
          /\ Placed(gc_hist[j])
          /\ IsGet(gc_hist[k]) /\ ~gc_hist[k].rasterized
          /\ IsGet(gc_hist[l]) /\ gc_hist[l].evicted # <<>>
          /\ \A m \in j..Len(gc_hist) : gc_hist[m].op # "acknowledge"


(***************************************************************************)
(* Claims about the vertex mode buffer and degenerate primitives.          *)
(***************************************************************************)
\* C19: after the pass over a view the vertex_mode_buffer has exactly one
\* entry per vertex of that view's mesh, and entry i is the vertex mode of the
\* primitive that appended vertex i, whatever earlier views left in the buffer.
C19_VertexModePerVertex ==
    Finished =>
        /\ Len(vertex_mode_buffer) = Len(mesh_points)
        /\ \A i \in 1..Len(mesh_points) :
               vertex_mode_buffer[i] = draw_cmds[mesh_points[i]].mode


\* The step replays the primitive at pos, whose render appends neither
\* indices nor vertices.
DegenerateStep ==
    /\ pc = "loop"
    /\ pos <= Len(draw_cmds)
    /\ draw_cmds[pos].type = "Primitive"
    /\ draw_cmds[pos].ni = 0
    /\ draw_cmds[pos].nv = 0

\* C20: a primitive whose render appends neither indices nor vertices leaves
\* the render commands, the start-index cursor, the current pipeline id, the
\* current scissor and the vertex_mode_buffer unchanged, and the loop goes on
\* with the next drained command.
C20_DegenerateSkippedWithoutEffect ==
    [][DegenerateStep =>
          /\ UNCHANGED <<render_commands, curr_start_index, curr_pipeline_id,
                         curr_scissor, vertex_mode_buffer>>
          /\ pc' = "loop"
          /\ pos' = pos + 1]_vars

\* A degenerate primitive was skipped between two primitives with indices,
\* after state commands had been pushed, and the later one was replayed.
C20_Witness ==
    /\ pc = "loop"
    /\ Len(replayed) >= 2
    /\ \E k \in 1..Len(draw_cmds) :
          /\ draw_cmds[k].type = "Primitive"
          /\ draw_cmds[k].ni = 0
          /\ draw_cmds[k].nv = 0
          /\ replayed[1].cmd < k
          /\ k < replayed[2].cmd


(***************************************************************************)
(* prepare_view_mesh on one drained list as a function of the list, for    *)
(* claims that compare the outputs of two lists.                           *)
(***************************************************************************)
\* The locals at lib.rs:133-135 and 194-199, before the first command.
BatchStart(cache) ==
    [curr_ctxt |-> DefaultContext, curr_start_index |-> 0, curr_pipeline_id |-> None,
     curr_scissor |-> None, render_commands |-> <<>>, indices |-> 0,
     pipelines |-> cache, panicked |-> FALSE]

\* One iteration of the loop at lib.rs:208-334 on the command cmd.
BatchStep(st, cmd) ==
    IF st.panicked THEN st
    ELSE IF cmd.type = "Context"
    THEN [st EXCEPT !.curr_ctxt = ReplaceContext(st.curr_ctxt, cmd.ctxt)]
    ELSE IF cmd.ni = 0
    THEN [st EXCEPT !.panicked = (cmd.nv # 0)]
    ELSE LET spec == Specialize(st.pipelines, NannouPipelineKey(st.curr_ctxt))
             new_scissor == st.curr_ctxt.scissor
             pipeline_changed == PipelineChanged(spec.id, st.curr_pipeline_id)
             scissor_changed == ScissorChanged(new_scissor, st.curr_scissor)
             flushed ==
                 IF FlushNeeded(scissor_changed, pipeline_changed)
                 THEN push_draw_cmd(st.curr_start_index, st.indices, st.render_commands)
                 ELSE [curr_start_index |-> st.curr_start_index,
                       render_commands |-> st.render_commands]
         IN  [st EXCEPT
                 !.pipelines = spec.cache,
                 !.indices = st.indices + cmd.ni,
                 !.curr_start_index = flushed.curr_start_index,
                 !.curr_pipeline_id =
                     IF pipeline_changed THEN Some(spec.id) ELSE st.curr_pipeline_id,
                 !.curr_scissor = NextScissor(scissor_changed, new_scissor, st.curr_scissor),
                 !.render_commands =
                     flushed.render_commands
                         \o StateCommands(pipeline_changed, scissor_changed, spec.id,
                                          DeriveScissor(Window, st.curr_ctxt.scissor))]

RECURSIVE BatchLoop(_, _)
BatchLoop(st, l) == IF l = <<>> THEN st ELSE BatchLoop(BatchStep(st, Head(l)), Tail(l))

\* The render commands inserted for a view whose drained list is l: the loop
\* and the final push_draw_cmd of lib.rs:337.
Batch(cache, l) ==
    LET st == BatchLoop(BatchStart(cache), l)
    IN  push_draw_cmd(st.curr_start_index, st.indices, st.render_commands).render_commands


(***************************************************************************)
(* Claims about the shape of the output.                                   *)
(***************************************************************************)
\* The command appends indices when it is replayed.
ProducesGeometry(cmd) == cmd.type = "Primitive" /\ cmd.ni # 0

\* The Context command at k is replaced by a later Context command before any
\* geometry-producing primitive.
Superseded(l, k) ==
    /\ k \in 1..Len(l)
    /\ l[k].type = "Context"
    /\ \E j \in (k + 1)..Len(l) :
          /\ l[j].type = "Context"
          /\ \A m \in (k + 1)..(j - 1) : ~ProducesGeometry(l[m])

\* The list without its command at k.
WithoutCommand(l, k) == SubSeq(l, 1, k - 1) \o SubSeq(l, k + 1, Len(l))

\* The step replays the Context command at pos.
ContextStep ==
    /\ pc = "loop"
    /\ pos <= Len(draw_cmds)
    /\ pos' = pos + 1
    /\ draw_cmds[pos].type = "Context"

\* C21: replaying a Context command appends no render command, and the render
\* commands of a finished view equal those of the same list with a superseded
\* Context command removed.
C21_ContextHasNoDirectOutput ==
    [][/\ ContextStep => render_commands' = render_commands
       /\ Finished' =>
              \A k \in 1..Len(draw_cmds') :
                  Superseded(draw_cmds', k)
                      => OutCmds' = Batch(<<>>, WithoutCommand(draw_cmds', k))]_vars

\* A context with another scissor, then a context with the full scissor, then
\* a primitive with indices: one SetScissor and one DrawIndexed come out.
C21_Witness ==
    /\ Finished
    /\ Len(draw_cmds) >= 3
    /\ Superseded(draw_cmds, 1)
    /\ draw_cmds[1].ctxt.scissor # ScissorFull
    /\ draw_cmds[2].type = "Context"
    /\ draw_cmds[2].ctxt.scissor = ScissorFull
    /\ ProducesGeometry(draw_cmds[3])
    /\ Cardinality(PositionsOf(OutCmds, "SetScissor")) = 1
    /\ Cardinality(PositionsOf(OutCmds, "DrawIndexed")) = 1


\* The positions of the SetPipeline commands among those a step appended.
PushedPipelines == {k \in 1..Len(Pushed) : Pushed[k].type = "SetPipeline"}

\* The SetPipeline commands of cmds, in order.
PipelinesOf(cmds) == SelectSeq(cmds, LAMBDA c : c.type = "SetPipeline")

\* C22: a primitive with indices emits SetPipeline exactly when it is the
\* first one or its pipeline key differs from that of the previous primitive
\* with indices; the command carries the id of that key, equal keys have one
\* id, and no two successive SetPipeline commands carry the same id.
C22_SetPipelineExactlyOnChange ==
    [][GeometryStep =>
          /\ (PushedPipelines # {}) <=>
                 (\/ replayed = <<>>
                  \/ NannouPipelineKey(curr_ctxt) # NannouPipelineKey(Last(replayed).ctxt))
          /\ \A k \in PushedPipelines :
                 pipelines'[Pushed[k].id] = NannouPipelineKey(curr_ctxt)
          /\ \A a, b \in 1..Len(pipelines') : pipelines'[a] = pipelines'[b] => a = b
          /\ LET p == PipelinesOf(render_commands')
             IN  \A k \in 1..(Len(p) - 1) : p[k].id # p[k + 1].id]_vars

\* Two primitives with indices were replayed under different pipeline keys:
\* each of them emitted a SetPipeline.
C22_Witness ==
    /\ pc = "loop"
    /\ Len(replayed) >= 2
    /\ NannouPipelineKey(replayed[1].ctxt) # NannouPipelineKey(replayed[2].ctxt)
    /\ Len(PipelinesOf(render_commands)) = 2


(***************************************************************************)
(* Claims about the scissor derivation.                                    *)
(***************************************************************************)
\* The rectangle r, whichever way round its coordinates are given, shares no
\* point with the rectangle f.
Disjoint(f, r) ==
    \/ Max(r.x[1], r.x[2]) < Min(f.x[1], f.x[2])
    \/ Max(f.x[1], f.x[2]) < Min(r.x[1], r.x[2])
    \/ Max(r.y[1], r.y[2]) < Min(f.y[1], f.y[2])
    \/ Max(f.y[1], f.y[2]) < Min(r.y[1], r.y[2])

\* The rectangle is given with an end before its start.
Inverted(r) == r.x[2] < r.x[1] \/ r.y[2] < r.y[1]

C24_OutputShape ==
    Finished =>
        /\ (OutCmds = <<>>) <=> (OutIndices = <<>>)
        /\ OutCmds # <<>> =>
               /\ Len(OutCmds) >= 4
               /\ OutCmds[1].type = "SetPipeline"
               /\ OutCmds[2].type = "SetBindGroup"
               /\ OutCmds[3].type = "SetScissor"
               /\ Last(OutCmds).type = "DrawIndexed"

\* A finished view with two draws: state commands come first, a second group
\* of state commands follows the first draw, and a draw closes the list.
C24_Witness ==
    /\ Finished
    /\ Len(OutCmds) >= 7
    /\ OutCmds[1].type = "SetPipeline"
    /\ OutCmds[4].type = "DrawIndexed"
    /\ Last(OutCmds).type = "DrawIndexed"


(***************************************************************************)
(* Further claims about update_draw_mesh.                                  *)
(***************************************************************************)
\* The sequence a is a prefix of the sequence b.
IsPrefix(a, b) == Len(a) <= Len(b) /\ SubSeq(b, 1, Len(a)) = a

\* The elements of a sequence.
Elements(l) == {l[k] : k \in 1..Len(l)}

\* The step runs a command that records a command into a Draw.
RecordingStep == upc = "exec" /\ world' # world /\ pushes' = pushes + 1

\* C25: update_draw_mesh has drained every Draw before it runs any command
\* and holds no state lock while commands run; a command that records into a
\* Draw is not blocked by the system, what it records is not among the lists
\* taken for this pass, and it stays at the end of the Draw's log, which only
\* grows until the next drain.
C25_DrainBeforeRunNoLockHeld ==
    [][/\ upc' = "exec" => \A d \in DrawEntities : "system" \notin state_lock'[d]
       /\ world' # world =>
              /\ upc = "exec"
              /\ uq = <<>>
              /\ Len(taken) = Cardinality(DrawEntities)
              /\ Some(Last(world')) \in Elements(Flatten(taken))
       /\ upc = "exec" => \A d \in DrawEntities : IsPrefix(draw_commands[d], draw_commands'[d])
       /\ RecordingStep =>
              /\ Some(Last(recorded')) \notin Elements(Flatten(taken'))
              /\ Last(draw_commands'[Last(recorded').draw]) = Some(Last(recorded'))
              /\ Last(recorded') \notin Elements(world')]_vars

\* The pass has returned after running a command that recorded a command: the
\* recorded command was not run and is in the log of its Draw.
C25_Witness ==
    /\ upc = "done"
    /\ \E k \in (ran_from + 1)..Len(world) :
          /\ world[k].rec # 0
          /\ \E e \in Elements(draw_commands[world[k].rec]) :
                 /\ e # None
                 /\ e[1] \notin Elements(world)
                 /\ e[1].rec = 0
                 /\ Some(e[1]) \notin Elements(Flatten(taken))

=============================================================================
